---- MODULE Spec2Model ----
(***************************************************************************)
(* A model of fluff/__init__.py: emitter normalisation (base_emitter and   *)
(* its date/null subclasses), Calculator.calculate with its filter chain,  *)
(* IndicatorDocument.calculate / diff, and the FluffPillow pipeline        *)
(* (change_transform followed by change_transport).                        *)
(*                                                                         *)
(* Python values are encoded as records so that any two of them can be     *)
(* compared: a date-like object is [t, d] (None, datetime.date,            *)
(* datetime.datetime, a 'YYYY-MM-DD' string, or a key the dict lacks), a   *)
(* group_by is [k, v] (None, a bare scalar, or a list).                    *)
(***************************************************************************)
EXTENDS Integers, Sequences, FiniteSets, Bags, TLC

VARIABLES
    store,              \* persistence store: indicator id -> JSON document, or Absent
    cur,                \* the change event (source document) being / last processed
    pc,                 \* pipeline position: "idle", "transformed", "done" ("off": unused)
    outcome,            \* of the last event: "none", "skipped", "error", "committed"
    before,             \* the store as it was when the current event was delivered
    indicator,          \* the in-memory IndicatorDocument change_transform works on
    current_indicator,  \* the pre-change snapshot (indicator.to_json()) or Absent
    sent,               \* the diff sent to indicator_document_updated for this event
    effects,            \* which of "get", "calculate", "save", "diff", "send" the event ran
    dup,                \* TRUE when this event re-delivers the previous one
    first,              \* what the previous delivery of this event left: [target, stored]
    arg,                \* harness specifications: the input of the function applied
    ret,                \* harness specifications: its result(s)
    phase               \* harness specifications: which call has been made

vars == <<store, cur, pc, outcome, before, indicator, current_indicator, sent,
          effects, dup, first, arg, ret, phase>>

pipelineVars == <<store, cur, pc, outcome, before, indicator, current_indicator,
                  sent, effects, dup, first>>

harnessVars == <<arg, ret, phase>>

-----------------------------------------------------------------------------
(* Bounds and sample domains *)

\* The most values one source document's emitters yield in total, and the most
\* values one indicator document holds in total.
MaxVals == 2

\* The calendar days 1..MaxDate are the sample dates.
MaxDate == 2
Dates == 1..MaxDate

-----------------------------------------------------------------------------
(* Python values *)

NoneDate == [t |-> "none", d |-> 0]
MissingDate == [t |-> "missing", d |-> 0]
PyDate(d) == [t |-> "date", d |-> d]
PyDateTime(d) == [t |-> "datetime", d |-> d]
DateStr(d) == [t |-> "str", d |-> d]

GbNone == [k |-> "none", v |-> <<>>]
GbScalar(x) == [k |-> "scalar", v |-> <<x>>]
GbList(s) == [k |-> "list", v |-> s]

\* A normalised emitted value: dict(date=..., value=..., group_by=...)
EV(date, value, gb) == [date |-> date, value |-> value, group_by |-> gb]

\* What an emitter function yields: a dict (with the keys it has), a list
\* [v0, v1] (date = v0, value = v1) or any other object (date = the object).
RawDict(keys, date, value, gb) ==
    [form |-> "dict", keys |-> keys,
     date |-> IF "date" \in keys THEN date ELSE MissingDate,
     value |-> IF "value" \in keys THEN value ELSE 0,
     group_by |-> IF "group_by" \in keys THEN gb ELSE GbNone]
RawList(v0, v1) ==
    [form |-> "list", keys |-> {}, date |-> v0, value |-> v1, group_by |-> GbNone]
RawBare(v) ==
    [form |-> "bare", keys |-> {}, date |-> v, value |-> 0, group_by |-> GbNone]

REDUCE_TYPES == {"sum", "count", "min", "max", "sumsqr"}

-----------------------------------------------------------------------------
(* base_emitter.__call__ / validate *)

EmitFail == [ok |-> FALSE, ev |-> EV(NoneDate, 0, GbNone)]
EmitOk(d) == [ok |-> TRUE, ev |-> EV(d.date, d.value, d.group_by)]

\* wrapped_f, lines 30-39: the yielded object brought to dict form.
\* The result is [ok, v]; ok = FALSE is the AssertionError of line 33.
base_normalize(v) ==
    IF v.form = "dict"
    THEN LET v1 == IF "value" \notin v.keys
                   THEN [v EXCEPT !.keys = @ \cup {"value"}, !.value = 1]
                   ELSE v
         IN  IF v1.group_by.k = "none"
             THEN [ok |-> FALSE, v |-> v1]
             ELSE [ok |-> TRUE,
                   v |-> IF v1.group_by.k # "list"
                         THEN [v1 EXCEPT !.group_by = GbList(v1.group_by.v)]
                         ELSE v1]
    ELSE IF v.form = "list"
    THEN [ok |-> TRUE, v |-> RawDict({"date", "value", "group_by"}, v.date, v.value, GbNone)]
    ELSE [ok |-> TRUE, v |-> RawDict({"date", "value", "group_by"}, v.date, 1, GbNone)]

\* A date validator that accepts datetime.datetime only.
date_validate_datetime_only(value) ==
    IF value.date.t # "datetime"
    THEN [ok |-> FALSE, v |-> value]
    ELSE [ok |-> TRUE, v |-> [value EXCEPT !.date = PyDate(value.date.d)]]

\* custom_date_emitter.validate: value.get('date') is not None and is a date
\* or a datetime; a datetime is truncated to its date.
date_validate(value) ==
    IF value.date.t \notin {"date", "datetime"}
    THEN [ok |-> FALSE, v |-> value]
    ELSE [ok |-> TRUE,
          v |-> IF value.date.t = "datetime"
                THEN [value EXCEPT !.date = PyDate(value.date.d)]
                ELSE value]

\* custom_null_emitter.validate: a missing date becomes None, a present one
\* must be None.
null_validate(value) ==
    IF "date" \notin value.keys
    THEN [ok |-> TRUE, v |-> [value EXCEPT !.keys = @ \cup {"date"}, !.date = NoneDate]]
    ELSE [ok |-> value.date.t = "none", v |-> value]

validate(kind, value) ==
    IF kind = "date" THEN date_validate(value) ELSE null_validate(value)

\* One value through wrapped_f of an emitter of the given kind.
wrapped_f(kind, raw) ==
    LET n == base_normalize(raw)
    IN  IF ~n.ok THEN EmitFail
        ELSE LET w == validate(kind, n.v)
             IN  IF w.ok THEN EmitOk(w.v) ELSE EmitFail

\* A normalised value yielded again by an emitter function: it is a dict with
\* the three keys.
AsYield(ev) == RawDict({"date", "value", "group_by"}, ev.date, ev.value, ev.group_by)

-----------------------------------------------------------------------------
(* Harness for emitter normalisation *)

DateLikes ==
    {NoneDate} \cup {PyDate(d) : d \in Dates} \cup {PyDateTime(d) : d \in Dates}
               \cup {DateStr(d) : d \in Dates}
GroupBys == {GbNone, GbScalar("g"), GbList(<<>>), GbList(<<"g">>)}
SampleValues == {1, 2}

RawValues ==
    {RawDict(ks, d, v, g) : ks \in SUBSET {"date", "value", "group_by"},
                            d \in DateLikes, v \in SampleValues, g \in GroupBys}
    \cup {RawList(d, v) : d \in DateLikes, v \in SampleValues}
    \cup {RawBare(d) : d \in DateLikes}

NoArg == [none |-> TRUE]
PipelineIdle ==
    /\ store = <<>> /\ cur = NoArg /\ pc = "off" /\ outcome = "none"
    /\ before = <<>> /\ indicator = NoArg /\ current_indicator = NoArg
    /\ sent = NoArg /\ effects = {} /\ dup = FALSE /\ first = NoArg

InitEmit ==
    /\ PipelineIdle
    /\ arg \in [kind : {"date", "null"}, raw : RawValues]
    /\ ret = [first |-> EmitFail, second |-> EmitFail]
    /\ phase = "start"

\* The emitter normalises the yielded value.
EmitNormalize ==
    /\ phase = "start"
    /\ ret' = [ret EXCEPT !.first = wrapped_f(arg.kind, arg.raw)]
    /\ phase' = "normalized"
    /\ UNCHANGED <<arg, pipelineVars>>

\* The accepted, normalised value is yielded again to the same emitter.
EmitRenormalize ==
    /\ phase = "normalized"
    /\ ret.first.ok
    /\ ret' = [ret EXCEPT !.second = wrapped_f(arg.kind, AsYield(ret.first.ev))]
    /\ phase' = "renormalized"
    /\ UNCHANGED <<arg, pipelineVars>>

NextEmit == EmitNormalize \/ EmitRenormalize

SpecEmit == InitEmit /\ [][NextEmit]_vars

\* C7 (as stated): re-normalising any accepted normalised value succeeds and
\* reproduces it, group_by null included.
C7_Original ==
    phase = "renormalized" => ret.second.ok /\ ret.second.ev = ret.first.ev

\* C7 (amended): re-normalising an accepted normalised value whose group_by is
\* not null succeeds and reproduces it exactly; one whose group_by is null is
\* rejected by the assertion on group_by.
C7_Idempotent ==
    phase = "renormalized" =>
        IF ret.first.ev.group_by.k = "none"
        THEN ~ret.second.ok
        ELSE ret.second.ok /\ ret.second.ev = ret.first.ev

\* A datetime with a scalar group_by was normalised (truncated, wrapped) and the
\* result fed back.
C7_Witness ==
    /\ phase = "renormalized"
    /\ arg.raw.form = "dict" /\ arg.raw.date.t = "datetime"
    /\ arg.raw.group_by.k = "scalar"
    /\ ret.first.ev.date.t = "date" /\ ret.first.ev.group_by.k = "list"
    /\ ret.second.ok

-----------------------------------------------------------------------------
(* The declared schema: calculator classes, their emitters and filters *)

\* class BaseCalculator(Calculator): total (null, sum), is_open (@filter_by)
\* class VisitCalculator(BaseCalculator): all_visits (date, count)
\* class FlagCalculator(Calculator): flagged (null, sum)
CalculatorClasses == {"Calculator", "BaseCalculator", "VisitCalculator", "FlagCalculator"}

Bases(cls) ==
    CASE cls = "BaseCalculator" -> {"Calculator"}
      [] cls = "VisitCalculator" -> {"BaseCalculator"}
      [] cls = "FlagCalculator" -> {"Calculator"}
      [] OTHER -> {}

\* attrs whose value carries _fluff_emitter / _fluff_filter
OwnEmitters(cls) ==
    CASE cls = "BaseCalculator" -> {"total"}
      [] cls = "VisitCalculator" -> {"all_visits"}
      [] cls = "FlagCalculator" -> {"flagged"}
      [] OTHER -> {}

OwnFilters(cls) ==
    CASE cls = "BaseCalculator" -> {"is_open"}
      [] OTHER -> {}

\* wrapped_f._fluff_emitter and wrapped_f._reduce_type
EmitterType(slug) == IF slug = "all_visits" THEN "date" ELSE "null"
ReduceType(slug) == IF slug = "all_visits" THEN "count" ELSE "sum"

\* CalculatorMeta.__new__: the class's own emitters and those of all parents.
RECURSIVE _fluff_emitters(_)
_fluff_emitters(cls) ==
    OwnEmitters(cls) \cup UNION {_fluff_emitters(p) : p \in Bases(cls)}

RECURSIVE _fluff_filters(_)
_fluff_filters(cls) ==
    OwnFilters(cls) \cup UNION {_fluff_filters(p) : p \in Bases(cls)}

\* IndicatorDocumentMeta.__new__: the document's calculators, slug -> instance.
\* visits = VisitCalculator(window=timedelta(days=7), filter=<a filter>)
\* flags = FlagCalculator()
_calculators == [visits |-> "VisitCalculator", flags |-> "FlagCalculator"]
CalcNames == DOMAIN _calculators
HasExplicitFilter(calc) == calc = "visits"
AllEmitterSlugs == UNION {_fluff_emitters(_calculators[c]) : c \in CalcNames}

-----------------------------------------------------------------------------
(* Source documents *)

SeqsUpTo(S, n) == UNION {[1..k -> S] : k \in 0..n}

\* What each emitter function of the sample source documents may yield; the
\* last value of all_visits and of flagged fails its emitter's validation.
SampleYields(slug) ==
    CASE slug = "all_visits" -> {RawBare(PyDate(d)) : d \in Dates} \cup {RawBare(NoneDate)}
      [] slug = "total" -> {RawBare(NoneDate)}
      [] OTHER -> {RawBare(NoneDate), RawBare(PyDate(1))}

YieldMaps ==
    {y \in {[all_visits |-> a, total |-> t, flagged |-> f] :
                a \in SeqsUpTo(SampleYields("all_visits"), MaxVals),
                t \in SeqsUpTo(SampleYields("total"), MaxVals),
                f \in SeqsUpTo(SampleYields("flagged"), MaxVals)} :
        Len(y.all_visits) + Len(y.total) + Len(y.flagged) <= MaxVals}

SourceIds == {"doc1"}

\* A source document: its id, what the pillow's document_filter, the visits
\* calculator's explicit filter and the is_open predicate answer for it, and
\* what the emitter functions yield for it.
Items ==
    [get_id : SourceIds, accepted : BOOLEAN, filter_ok : BOOLEAN,
     is_open : BOOLEAN, yields : YieldMaps]

-----------------------------------------------------------------------------
(* Calculator *)

\* Calculator.filter: self._filter is None or self._filter.filter(item)
filter(calc, item) == ~HasExplicitFilter(calc) \/ item.filter_ok

\* the @filter_by methods
FilterBy(slug, item) == item.is_open

\* Calculator.passes_filter
passes_filter(calc, item) ==
    /\ filter(calc, item)
    /\ \A slug \in _fluff_filters(_calculators[calc]) : FilterBy(slug, item)

\* list(fn(item)): every yielded value through wrapped_f; [ok, vals], ok = FALSE
\* when a value fails its validation (the exception leaves list()).
EmitterRun(slug, item) ==
    LET ys == item.yields[slug]
        rs == [i \in 1..Len(ys) |-> wrapped_f(EmitterType(slug), ys[i])]
    IN  [ok |-> \A i \in 1..Len(ys) : rs[i].ok,
         vals |-> [i \in 1..Len(ys) |-> rs[i].ev]]

\* A calculate that evaluates the filter chain inside the loop and runs each
\* emitter before looking at the answer.
Calculator_calculate_filter_per_emitter(calc, item) ==
    LET emitters == _fluff_emitters(_calculators[calc])
        passes == passes_filter(calc, item)
    IN  [ok |-> \A slug \in emitters : EmitterRun(slug, item).ok,
         values |-> [slug \in emitters |->
                        IF passes THEN EmitterRun(slug, item).vals ELSE <<>>],
         filter_evals |-> Cardinality(emitters),
         ran |-> emitters]

\* Calculator.calculate: [ok, values, filter_evals, ran]. ok = FALSE when an
\* emitter raised; filter_evals counts the evaluations of passes_filter and ran
\* is the set of emitter functions that were called.
Calculator_calculate(calc, item) ==
    LET emitters == _fluff_emitters(_calculators[calc])
        passes == passes_filter(calc, item)
    IN  [ok |-> passes => \A slug \in emitters : EmitterRun(slug, item).ok,
         values |-> [slug \in emitters |->
                        IF passes THEN EmitterRun(slug, item).vals ELSE <<>>],
         filter_evals |-> 1,
         ran |-> IF passes THEN emitters ELSE {}]

-----------------------------------------------------------------------------
(* Harness for Calculator.calculate *)

NoCalcResult == [ok |-> FALSE, values |-> <<>>, filter_evals |-> 0, ran |-> {}]

InitCalc ==
    /\ PipelineIdle
    /\ arg \in [calc : CalcNames, item : Items]
    /\ ret = NoCalcResult
    /\ phase = "start"

CalcCalculate ==
    /\ phase = "start"
    /\ ret' = Calculator_calculate(arg.calc, arg.item)
    /\ phase' = "calculated"
    /\ UNCHANGED <<arg, pipelineVars>>

NextCalc == CalcCalculate

SpecCalc == InitCalc /\ [][NextCalc]_vars

\* The emitter slugs a calculator declares, own plus inherited, read off the
\* class declarations.
DeclaredSlugs(calc) ==
    CASE calc = "visits" -> {"all_visits", "total"}
      [] calc = "flags" -> {"flagged"}

\* C8: when the filter chain rejects the source document, calculate returns
\* exactly the declared emitter slugs (own plus inherited), each bound to an
\* empty sequence, runs no emitter function, and has evaluated the filter chain
\* once.
C8_FilteredOut ==
    (phase = "calculated" /\ ~passes_filter(arg.calc, arg.item)) =>
        /\ ret.ok
        /\ DOMAIN ret.values = DeclaredSlugs(arg.calc)
        /\ \A slug \in DOMAIN ret.values : ret.values[slug] = <<>>
        /\ ret.ran = {}
        /\ ret.filter_evals = 1

\* The @filter_by predicate alone rejects a document whose emitters would yield
\* values (one of them invalid), for the calculator with an inherited emitter.
C8_Witness ==
    /\ phase = "calculated"
    /\ arg.calc = "visits"
    /\ arg.item.filter_ok /\ ~arg.item.is_open
    /\ arg.item.yields.all_visits = <<RawBare(NoneDate)>>
    /\ arg.item.yields.total # <<>>
    /\ ret.values = [all_visits |-> <<>>, total |-> <<>>]

-----------------------------------------------------------------------------
(* IndicatorDocument *)

Absent == [exists |-> FALSE]
NoDiff == [present |-> FALSE]

indicator_class_name == "IndicatorDocument"
\* group_by = ()
group_by == <<>>

\* '%s-%s' % (self.indicator_class.__name__, doc.get_id)
indicator_id(get_id) == <<indicator_class_name, get_id>>

Doc(_id, id, calcs) ==
    [exists |-> TRUE, _id |-> _id, id |-> id, calcs |-> calcs, group_by |-> group_by]

\* indicator_class(_id=indicator_id): every calculator slot is an empty dict
NewIndicator(_id) == Doc(_id, "", [c \in CalcNames |-> <<>>])

\* to_json of one stored value: a date is written as a 'YYYY-MM-DD' string
ValueToJson(ev) ==
    IF ev.date.t = "date" THEN [ev EXCEPT !.date = DateStr(ev.date.d)] ELSE ev

SeqToJson(s) == [i \in 1..Len(s) |-> ValueToJson(s[i])]

\* Document.to_json(): the document as JSON
to_json(doc) ==
    [doc EXCEPT !.calcs = [c \in DOMAIN doc.calcs |->
                              [e \in DOMAIN doc.calcs[c] |-> SeqToJson(doc.calcs[c][e])]]]

\* IndicatorDocument.calculate, the calculators taken in the given order (the
\* order of self._calculators.items()). [ok, doc]: when a calculator raises,
\* ok = FALSE and doc is the document as the exception leaves it.
RECURSIVE CalculateFrom(_, _, _, _)
CalculateFrom(doc, item, order, k) ==
    IF k > Len(order)
    THEN [ok |-> TRUE,
          doc |-> [doc EXCEPT !.id = item.get_id, !.group_by = group_by]]
    ELSE LET r == Calculator_calculate(order[k], item)
         IN  IF ~r.ok THEN [ok |-> FALSE, doc |-> doc]
             ELSE CalculateFrom([doc EXCEPT !.calcs[order[k]] = r.values],
                                item, order, k + 1)

IndicatorDocument_calculate(doc, item, order) == CalculateFrom(doc, item, order, 1)

CalcOrders == {<<"visits", "flags">>, <<"flags", "visits">>}

\* _shallow_dict_diff with every common key reported as changed.
_shallow_dict_diff_all_changed(left, right) ==
    DOMAIN left \cup DOMAIN right

\* _shallow_dict_diff: the keys in one side only or bound to unequal values.
\* The None of line 447 and the empty set are both falsy; both are {} here.
_shallow_dict_diff(left, right) ==
    IF DOMAIN left = {} /\ DOMAIN right = {} THEN {}
    ELSE IF DOMAIN left = {} \/ DOMAIN right = {}
    THEN (IF DOMAIN left # {} THEN DOMAIN left ELSE DOMAIN right)
    ELSE LET left_set == DOMAIN left
             right_set == DOMAIN right
             intersect == right_set \cap left_set
             added == right_set \ intersect
             removed == left_set \ intersect
             changed == {o \in intersect : left[o] # right[o]}
         IN  added \cup removed \cup changed

\* NormalizedEmittedValue.__init__: a date given as a string is parsed.
NormalizedEmittedValue(value) ==
    IF value.date.t = "str" THEN [value EXCEPT !.date = PyDate(value.date.d)] ELSE value

\* NormalizedEmittedValue.__key: (date, value, tuple(gb) if gb else None)
Key(nv) ==
    <<nv.date, nv.value, IF nv.group_by.v = <<>> THEN GbNone ELSE nv.group_by>>

Range(s) == {s[i] : i \in 1..Len(s)}
KeysOf(s) == {Key(NormalizedEmittedValue(s[i])) : i \in 1..Len(s)}

\* The element set([...]) keeps for a key: the first one inserted.
FirstWithKey(s, k) ==
    LET i == CHOOSE i \in 1..Len(s) :
                 /\ Key(NormalizedEmittedValue(s[i])) = k
                 /\ \A j \in 1..(i - 1) : Key(NormalizedEmittedValue(s[j])) # k
    IN  NormalizedEmittedValue(s[i])

BagOfSeq(s) == [v \in Range(s) |-> Cardinality({i \in 1..Len(s) : s[i] = v})]

\* The value diff without the subtraction of the old side.
values_diff_no_subtraction(self_seq, other_seq) ==
    SetToBag({FirstWithKey(self_seq, k) : k \in KeysOf(self_seq)})

\* The value diff with its operands exchanged: set(other) - set(self).
values_diff_swapped(self_seq, other_seq) ==
    SetToBag({FirstWithKey(other_seq, k) : k \in KeysOf(other_seq) \ KeysOf(self_seq)})

\* Lines 435-437: set(self) - set(other), as a bag (the list has no defined
\* order).
values_diff(self_seq, other_seq) ==
    SetToBag({FirstWithKey(self_seq, k) : k \in KeysOf(self_seq) \ KeysOf(other_seq)})

\* Line 439: every value of the new side, in a list.
values_all(self_seq) ==
    BagOfSeq([i \in 1..Len(self_seq) |-> NormalizedEmittedValue(self_seq[i])])

_indicator_meta(calc_name, emitter_name) ==
    [calculator |-> calc_name, emitter |-> emitter_name,
     emitter_type |-> EmitterType(emitter_name),
     reduce_type |-> ReduceType(emitter_name)]

\* _indicator_meta(calc_name, emitter_name, values=values)
IndicatorChange(calc_name, emitter_name, values) ==
    [calculator |-> calc_name, emitter |-> emitter_name,
     emitter_type |-> EmitterType(emitter_name),
     reduce_type |-> ReduceType(emitter_name),
     values |-> values]

_indicator_diff(self, calc_name, emitter_names, other_doc) ==
    {IndicatorChange(calc_name, e,
        IF other_doc.exists
        THEN values_diff(self.calcs[calc_name][e], other_doc.calcs[calc_name][e])
        ELSE values_all(self.calcs[calc_name][e])) : e \in emitter_names}

\* An inventory of the emitters with a non-empty sequence only.
all_indicators_non_empty(self) ==
    UNION {{_indicator_meta(c, e) : e \in {x \in DOMAIN self.calcs[c] :
                                              self.calcs[c][x] # <<>>}} : c \in CalcNames}

\* Lines 386-388: one IndicatorMeta per key of every calculator slot.
all_indicators(self) ==
    UNION {{_indicator_meta(c, e) : e \in DOMAIN self.calcs[c]} : c \in CalcNames}

\* Lines 349-359
diff_keys(self, other_doc) ==
    [c \in CalcNames |->
        IF other_doc.exists
        THEN _shallow_dict_diff(self.calcs[c], other_doc.calcs[c])
        ELSE {e \in DOMAIN self.calcs[c] : self.calcs[c][e] # <<>>}]

\* IndicatorDocument.diff: NoDiff is the None of line 362. indicator_changes
\* and all_indicators are lists whose order is that of dict iteration; they are
\* sets here.
diff(self, other_doc) ==
    LET dk == diff_keys(self, other_doc)
    IN  IF \A c \in CalcNames : dk[c] = {} THEN NoDiff
        ELSE [present |-> TRUE,
              doc_type |-> indicator_class_name,
              group_names |-> group_by,
              indicator_changes |->
                  UNION {_indicator_diff(self, c, dk[c], other_doc) : c \in CalcNames},
              all_indicators |-> all_indicators(self)]

-----------------------------------------------------------------------------
(* Harness for IndicatorDocument.diff *)

\* The values the sample documents hold for each emitter.
SampleEVs(slug) ==
    CASE slug = "all_visits" ->
            {EV(PyDate(d), 1, g) : d \in Dates, g \in {GbNone, GbList(<<>>)}}
      [] slug = "total" -> {EV(NoneDate, v, GbNone) : v \in SampleValues}
      [] OTHER -> {EV(NoneDate, 1, GbList(<<"g">>))}

SampleCalcs ==
    {c \in {[visits |-> [all_visits |-> a, total |-> t], flags |-> [flagged |-> f]] :
                a \in SeqsUpTo(SampleEVs("all_visits"), MaxVals),
                t \in SeqsUpTo(SampleEVs("total"), MaxVals),
                f \in SeqsUpTo(SampleEVs("flagged"), MaxVals)} :
        Len(c.visits.all_visits) + Len(c.visits.total) + Len(c.flags.flagged) <= MaxVals}

\* Documents as calculate leaves them, and as to_json writes them.
PyDocs == {Doc(indicator_id("doc1"), "doc1", c) : c \in SampleCalcs}
JsonDocs == {to_json(d) : d \in PyDocs}

InitDiff ==
    /\ PipelineIdle
    /\ arg \in [new : PyDocs \cup JsonDocs, old : PyDocs \cup JsonDocs \cup {Absent}]
    /\ ret = NoDiff
    /\ phase = "start"

DiffRun ==
    /\ phase = "start"
    /\ ret' = diff(arg.new, arg.old)
    /\ phase' = "diffed"
    /\ UNCHANGED <<arg, pipelineVars>>

NextDiff == DiffRun

SpecDiff == InitDiff /\ [][NextDiff]_vars

\* The (calculator, emitter) pairs of a document and those with values.
EmitterPairs(doc) ==
    UNION {{<<c, e>> : e \in DOMAIN doc.calcs[c]} : c \in DOMAIN doc.calcs}
NonEmptyPairs(doc) == {p \in EmitterPairs(doc) : doc.calcs[p[1]][p[2]] # <<>>}
PairsOf(metas) == {<<m.calculator, m.emitter>> : m \in metas}
NormalizedRange(s) == {NormalizedEmittedValue(s[i]) : i \in 1..Len(s)}

\* C2: the diff of a document against an identical document is absent.
C2_DiffSelfAbsent ==
    (phase = "diffed" /\ arg.old = arg.new) => ~ret.present

\* A document with values in a date emitter and an empty emitter was diffed
\* against itself.
C2_Witness ==
    /\ phase = "diffed"
    /\ arg.old = arg.new
    /\ Len(arg.new.calcs.visits.all_visits) = MaxVals
    /\ arg.new.calcs.flags.flagged = <<>>
    /\ ~ret.present

\* C3 (as stated): diff(D, absent) has an entry for exactly the emitters with a
\* non-empty sequence, every distinct value of the sequence is reported exactly
\* once, repeated values included, and the diff is absent when no emitter has
\* values.
C3_Original ==
    (phase = "diffed" /\ ~arg.old.exists) =>
        IF NonEmptyPairs(arg.new) = {}
        THEN ~ret.present
        ELSE /\ ret.present
             /\ PairsOf(ret.indicator_changes) = NonEmptyPairs(arg.new)
             /\ \A m \in ret.indicator_changes :
                    /\ BagToSet(m.values) =
                           NormalizedRange(arg.new.calcs[m.calculator][m.emitter])
                    /\ \A v \in BagToSet(m.values) : CopiesIn(v, m.values) = 1

\* C4: with the old document present, every reported value is a (normalised)
\* member of the new sequence whose key does not occur in the old sequence, and
\* every new-side key that the old side lacks is reported.
C4_ValuesNewNotOld ==
    (phase = "diffed" /\ arg.old.exists /\ ret.present) =>
        \A m \in ret.indicator_changes :
            LET ns == arg.new.calcs[m.calculator][m.emitter]
                os == arg.old.calcs[m.calculator][m.emitter]
            IN  /\ \A v \in BagToSet(m.values) :
                       v \in NormalizedRange(ns) /\ Key(v) \notin KeysOf(os)
                /\ \A k \in KeysOf(ns) \ KeysOf(os) :
                       \E v \in BagToSet(m.values) : Key(v) = k

\* A changed emitter whose new side shares one key with the old side and adds
\* another: one value is withheld, one reported.
C4_Witness ==
    /\ phase = "diffed" /\ arg.old.exists /\ ret.present
    /\ \E m \in ret.indicator_changes :
           LET ns == arg.new.calcs[m.calculator][m.emitter]
               os == arg.old.calcs[m.calculator][m.emitter]
           IN  /\ KeysOf(ns) \cap KeysOf(os) # {}
               /\ BagCardinality(m.values) = 1

\* C5 (as stated): all_indicators lists an emitter exactly when its current
\* sequence in the new document is non-empty.
C5_Original ==
    (phase = "diffed" /\ ret.present) =>
        PairsOf(ret.all_indicators) = NonEmptyPairs(arg.new)

\* C5 (amended): all_indicators lists every (calculator, emitter) pair of the
\* new document's calculator slots, with its emitter and reduce type, whether
\* the emitter's current sequence is empty or not and whether or not it changed.
C5_AllIndicatorsListsEveryEmitter ==
    (phase = "diffed" /\ ret.present) =>
        /\ PairsOf(ret.all_indicators) =
               {<<"visits", "all_visits">>, <<"visits", "total">>, <<"flags", "flagged">>}
        /\ \A m \in ret.all_indicators :
               /\ m.emitter_type = (IF m.emitter = "all_visits" THEN "date" ELSE "null")
               /\ m.reduce_type \in REDUCE_TYPES

\* A report whose inventory lists an emitter that is empty and unchanged.
C5_Witness ==
    /\ phase = "diffed" /\ ret.present /\ arg.old.exists
    /\ arg.new.calcs.flags.flagged = <<>>
    /\ arg.old.calcs.flags.flagged = <<>>
    /\ <<"flags", "flagged">> \in PairsOf(ret.all_indicators)

-----------------------------------------------------------------------------
(* FluffPillow: change_transform followed by change_transport *)

IndicatorIds == {indicator_id(i) : i \in SourceIds}

\* The pillow class is built with a document_filter (IndicatorDocument.pillow).
document_filter_set == TRUE

NoTransform ==
    [kind |-> "none", effects |-> {}, current_indicator |-> Absent, indicator |-> Absent]

\* Lines 512-526 of change_transform: get the indicator document or make a new
\* one, keep the snapshot of a loaded one, calculate.
transform_accepted(st, item, order) ==
    LET iid == indicator_id(item.get_id)
        loaded == st[iid]
        fresh == IF ~loaded.exists THEN NewIndicator(iid) ELSE loaded
        snapshot == IF ~loaded.exists THEN Absent ELSE to_json(loaded)
        r == IndicatorDocument_calculate(fresh, item, order)
    IN  [kind |-> IF r.ok THEN "pair" ELSE "raised",
         effects |-> {"get", "calculate"},
         current_indicator |-> snapshot,
         indicator |-> r.doc]

\* A change_transform that goes on to return the pair when calculate raised.
change_transform_swallowing_errors(st, item, order) ==
    IF document_filter_set /\ ~item.accepted THEN NoTransform
    ELSE [transform_accepted(st, item, order) EXCEPT !.kind = "pair"]

\* A change_transform that loads the indicator document before it asks the
\* document filter.
change_transform_load_first(st, item, order) ==
    IF document_filter_set /\ ~item.accepted
    THEN [NoTransform EXCEPT !.effects = {"get"}]
    ELSE transform_accepted(st, item, order)

\* FluffPillow.change_transform on the store st. kind is "none" (return None),
\* "raised" (calculate raised) or "pair" (the returned tuple); effects names
\* the calls made on the way.
change_transform(st, item, order) ==
    IF document_filter_set /\ ~item.accepted THEN NoTransform
    ELSE transform_accepted(st, item, order)

\* new_indicator.save()
save(st, doc) == [st EXCEPT ![doc._id] = to_json(doc)]

Init ==
    /\ store = [i \in IndicatorIds |-> Absent]
    /\ cur = NoArg
    /\ pc = "idle"
    /\ outcome = "none"
    /\ before = store
    /\ indicator = Absent
    /\ current_indicator = Absent
    /\ sent = NoDiff
    /\ effects = {}
    /\ dup = FALSE
    /\ first = [target |-> <<>>, outcome |-> "none"]
    /\ arg = NoArg /\ ret = NoArg /\ phase = "off"

\* The pillow takes an event and runs change_transform on it.
Transform(item, order) ==
    LET t == change_transform(store, item, order)
    IN  /\ cur' = item
        /\ before' = store
        /\ indicator' = t.indicator
        /\ current_indicator' = t.current_indicator
        /\ effects' = t.effects
        /\ sent' = NoDiff
        /\ pc' = IF t.kind = "pair" THEN "transformed" ELSE "done"
        /\ outcome' = CASE t.kind = "none" -> "skipped"
                        [] t.kind = "raised" -> "error"
                        [] OTHER -> "none"
        /\ UNCHANGED <<store, harnessVars>>

\* A new change event arrives while the pillow waits for one.
DeliverChange(item, order) ==
    /\ pc = "idle"
    /\ dup' = FALSE
    /\ first' = [target |-> <<>>, outcome |-> "none"]
    /\ Transform(item, order)

\* The change feed delivers the previous event once more.
RedeliverChange(order) ==
    /\ pc = "done"
    /\ dup' = TRUE
    /\ first' = [target |-> IF indicator.exists THEN indicator._id ELSE <<>>,
                 outcome |-> outcome]
    /\ Transform(cur, order)

\* FluffPillow.change_transport on the pair change_transform returned.
TransportChange ==
    /\ pc = "transformed"
    /\ LET d == diff(indicator, current_indicator)
       IN  /\ store' = save(store, indicator)
           /\ sent' = d
           /\ effects' = effects \cup {"save", "diff"}
                             \cup (IF d.present THEN {"send"} ELSE {})
    /\ pc' = "done"
    /\ outcome' = "committed"
    /\ UNCHANGED <<cur, before, indicator, current_indicator, dup, first, harnessVars>>

\* The event has been processed to completion; the pillow waits for the next
\* change.
AwaitNextChange ==
    /\ pc = "done"
    /\ pc' = "idle"
    /\ cur' = NoArg
    /\ outcome' = "none"
    /\ before' = store
    /\ indicator' = Absent
    /\ current_indicator' = Absent
    /\ sent' = NoDiff
    /\ effects' = {}
    /\ dup' = FALSE
    /\ first' = [target |-> <<>>, outcome |-> "none"]
    /\ UNCHANGED <<store, harnessVars>>

Next ==
    \/ \E item \in Items, order \in CalcOrders : DeliverChange(item, order)
    \/ AwaitNextChange
    \/ \E order \in CalcOrders : RedeliverChange(order)
    \/ TransportChange

Spec == Init /\ [][Next]_vars

\* Some calculator raises while recomputing the source document.
Defective(item) == \E c \in CalcNames : ~Calculator_calculate(c, item).ok

\* C1: when the recomputation of an accepted event fails in a calculator, the
\* event ends in an error without save() or a diff being reached, and the
\* persisted store is what it was when the event arrived.
C1_FailedRecomputeLeavesStore ==
    (pc # "idle" /\ cur.accepted /\ Defective(cur)) =>
        /\ pc = "done"
        /\ outcome = "error"
        /\ store = before
        /\ effects \cap {"save", "diff", "send"} = {}
        /\ ~sent.present

\* An update of a persisted document failed after its first calculator had
\* already rewritten the in-memory document.
C1_Witness ==
    /\ pc = "done" /\ outcome = "error"
    /\ before[indicator_id(cur.get_id)].exists
    /\ indicator # before[indicator_id(cur.get_id)]
    /\ store = before

\* C6: an event whose source document the document filter rejects is a no-op:
\* nothing is loaded, calculated, saved, diffed or sent, the result is
\* "skipped" and the store is unchanged.
C6_FilteredEventIsNoOp ==
    (pc # "idle" /\ ~cur.accepted) =>
        /\ pc = "done"
        /\ outcome = "skipped"
        /\ effects = {}
        /\ store = before
        /\ ~sent.present

\* A rejected source document that would have changed a persisted document.
C6_Witness ==
    /\ pc = "done" /\ outcome = "skipped"
    /\ store[indicator_id(cur.get_id)].exists
    /\ cur.filter_ok /\ cur.is_open /\ ~Defective(cur)
    /\ Len(cur.yields.all_visits) = MaxVals
    /\ store[indicator_id(cur.get_id)].calcs.visits.all_visits = <<>>

\* C9 (as stated): the second of two successive, completed deliveries of one
\* event targets the same indicator id, leaves the persisted document as the
\* first left it and sends no diff.
C9_Original ==
    (pc = "done" /\ dup /\ first.outcome = "committed" /\ outcome = "committed") =>
        /\ indicator._id = first.target
        /\ store = before
        /\ ~sent.present

\* C10: when a recomputation leaves an emitter with a strict subset (by key) of
\* its persisted values, the stored sequence is the new one, a diff is sent and
\* it holds an IndicatorChange for that emitter with no values.
C10_PureRemovalReportsNoValues ==
    (pc = "done" /\ outcome = "committed" /\ current_indicator.exists) =>
        \A p \in EmitterPairs(indicator) :
            LET ns == indicator.calcs[p[1]][p[2]]
                os == before[indicator._id].calcs[p[1]][p[2]]
            IN  (KeysOf(ns) \subseteq KeysOf(os) /\ KeysOf(ns) # KeysOf(os)) =>
                    /\ store[indicator._id].calcs[p[1]][p[2]] = SeqToJson(ns)
                    /\ sent.present
                    /\ \E m \in sent.indicator_changes :
                           /\ m.calculator = p[1] /\ m.emitter = p[2]
                           /\ BagCardinality(m.values) = 0

\* Two visits were persisted; the recomputation yields the first one only.
C10_Witness ==
    /\ pc = "done" /\ outcome = "committed" /\ current_indicator.exists
    /\ before[indicator._id].calcs.visits.all_visits =
           <<EV(DateStr(1), 1, GbNone), EV(DateStr(2), 1, GbNone)>>
    /\ store[indicator._id].calcs.visits.all_visits = <<EV(DateStr(1), 1, GbNone)>>
    /\ sent.present
    /\ \E m \in sent.indicator_changes :
           m.emitter = "all_visits" /\ BagCardinality(m.values) = 0

-----------------------------------------------------------------------------
(* Harness for IndicatorDocument.calculate *)

\* The documents calculate is called on in change_transform: one loaded from
\* the store, or a new one.
LoadedDocs == JsonDocs \cup {NewIndicator(indicator_id(i)) : i \in SourceIds}

InitDocCalc ==
    /\ PipelineIdle
    /\ arg \in [doc : LoadedDocs, item : Items, order : CalcOrders]
    /\ ret = [ok |-> FALSE, doc |-> Absent]
    /\ phase = "start"

DocCalculate ==
    /\ phase = "start"
    /\ ret' = IndicatorDocument_calculate(arg.doc, arg.item, arg.order)
    /\ phase' = "calculated"
    /\ UNCHANGED <<arg, pipelineVars>>

NextDocCalc == DocCalculate

SpecDocCalc == InitDocCalc /\ [][NextDocCalc]_vars

\* C11 (as stated): when a calculator raises part-way through
\* IndicatorDocument.calculate, the document it was called on has none of its
\* calculator slots, id or group names changed.
C11_Original ==
    (phase = "calculated" /\ ~ret.ok) => ret.doc = arg.doc

====
